---- MODULE Spec2Model ----
(***************************************************************************)
(* Minesweeper: the board environment (minesweeper_env.py) and the         *)
(* constraint agents (csp_agent.py, hybrid_agent.py, mcmc_agent.py).       *)
(* Cells are <<row, column>> pairs, 0-based as in the source.              *)
(***************************************************************************)
EXTENDS Integers, Sequences, FiniteSets, TLC

\* ------------------------------------------------------------------ bounds
\* MinesweeperEnv(width, height, mines): the board the games are played on.
BoardHeight == 3
BoardWidth == 3
BoardMines == 3

\* A wider board, on which the frontier splits into components whose
\* estimates differ; the games followed on it have their mines among the
\* cells of WidePool.
WideHeight == 3
WideWidth == 6
WideMines == 4
WidePool == {<<0, 0>>, <<1, 1>>, <<1, 2>>, <<1, 4>>, <<2, 0>>, <<2, 4>>}

\* A board with two walls of mines: the games followed on it have their
\* mines among the cells of GuessPool, and run out of corners to guess.
GuessHeight == 3
GuessWidth == 7
GuessMines == 6
GuessPool == {<<0, 2>>, <<1, 2>>, <<2, 2>>, <<1, 3>>, <<0, 4>>, <<1, 4>>, <<2, 4>>}

\* A caller of add_knowledge that reports any hints: the board, the hints it
\* reports, the number of calls it makes, and the largest count of a derived
\* sentence that is followed.
CallHeight == 2
CallWidth == 3
CallHints == {1, 2, 5}
MaxCalls == 3
MaxCount == 9

\* A user who enters any moves (test_terminal.py): the board played on.
PlayHeight == 2
PlayWidth == 3
PlayMines == 2

\* A caller that hands get_action an observation of its own making: the
\* board, the cells that show a hint, the hints they show, and the largest
\* component size the choice of estimator is followed to.
ObsHeight == 5
ObsWidth == 5
ObsClues == {<<1, 1>>, <<1, 3>>, <<3, 1>>, <<3, 2>>}
ObsHints == {1, 2}
MaxComponent == 20

\* A caller that builds a knowledge base with add_knowledge and then asks
\* for an action or runs an estimator on a component: the number of calls
\* of add_knowledge it makes.
MaxReports == 2

VARIABLES
    \* MinesweeperEnv
    height, width, env_mines, grid, visible, flags, mines_placed, exploded,
    \* the cells among which the draws of random.sample are followed
    pool,
    \* the driving loop (benchmark.py run_benchmark): obs, done, info, action
    obs, done, info, action, reward, phase,
    \* CSPAgent / HybridAgent / MCMCAgent
    agent_class, moves_made, mines, safes, knowledge,
    \* which branch of get_action produced the action, and what the
    \* estimators reported to it, one entry per component
    branch, est,
    \* infer_knowledge step by step: safes_to_mark and mines_to_mark not yet
    \* applied, the flag `changes`, and the last step taken
    todo_safes, todo_mines, changes, last,
    \* an estimator called on its own: the method, the component, what it
    \* drew at random and where its loop stands
    run

board == <<height, width, env_mines, pool>>
env_vars == <<grid, visible, flags, mines_placed, exploded>>
loop_vars == <<obs, done, info, action, reward, phase>>
agent_vars == <<agent_class, moves_made, mines, safes, knowledge, branch, est>>
infer_vars == <<todo_safes, todo_mines, changes, last>>
vars == <<board, env_vars, loop_vars, agent_vars, infer_vars, run>>

\* ------------------------------------------------------------------ cells
Cells == (0 .. height - 1) \X (0 .. width - 1)

\* for r in range(rows): for c in range(cols)
CellSeq == [i \in 1 .. height * width |-> <<(i - 1) \div width, (i - 1) % width>>]

\* for dr in [-1, 0, 1]: for dc in [-1, 0, 1]
Offsets == << <<-1, -1>>, <<-1, 0>>, <<-1, 1>>,
              <<0, -1>>,  <<0, 0>>,  <<0, 1>>,
              <<1, -1>>,  <<1, 0>>,  <<1, 1>> >>

Shift(cell, d) == <<cell[1] + d[1], cell[2] + d[2]>>

\* The elements of a set of cells, listed in row-major order.
ListOf(S) == SelectSeq(CellSeq, LAMBDA c : c \in S)

None == <<>>

\* ====================================================== minesweeper_env.py
COVERED == -2
FLAGGED == -3
MINE == -1

\* reset(): np.zeros grids, nothing placed.
reset_grid == [cell \in Cells |-> 0]

\* _place_mines, step 4: the number of mines in the 3x3 window of a cell.
window_count(mine_locs, cell) ==
    Cardinality({i \in 1 .. 9 : Shift(cell, Offsets[i]) \in mine_locs})

\* _place_mines(safe_r, safe_c) with random.sample having drawn mine_locs.
place_mines(mine_locs) ==
    [cell \in Cells |-> IF cell \in mine_locs THEN MINE
                        ELSE window_count(mine_locs, cell)]

\* _get_obs()
get_obs(g, vis, fl) ==
    [cell \in Cells |-> IF cell \in vis THEN g[cell]
                        ELSE IF cell \in fl THEN FLAGGED ELSE COVERED]

\* _flood_fill: the inner double loop over the neighbours of curr, from the
\* i-th offset on; st = [vis, visited, stack].
RECURSIVE flood_neighbors(_, _, _, _, _)
flood_neighbors(g, fl, curr, i, st) ==
    IF i > 9 THEN st
    ELSE LET n == Shift(curr, Offsets[i])
         IN IF Offsets[i] = <<0, 0>> \/ n \notin Cells
               \/ n \in st.vis \/ n \in fl \/ n \in st.visited
            THEN flood_neighbors(g, fl, curr, i + 1, st)
            ELSE flood_neighbors(g, fl, curr, i + 1,
                    [vis |-> st.vis \cup {n},
                     visited |-> st.visited \cup {n},
                     stack |-> IF g[n] = 0 THEN Append(st.stack, n) ELSE st.stack])

\* _flood_fill: while stack: curr = stack.pop(); reveal; scan the neighbours.
RECURSIVE flood_loop(_, _, _)
flood_loop(g, fl, st) ==
    IF st.stack = <<>> THEN st.vis
    ELSE LET curr == st.stack[Len(st.stack)]
             popped == SubSeq(st.stack, 1, Len(st.stack) - 1)
         IN flood_loop(g, fl,
                flood_neighbors(g, fl, curr, 1,
                    [vis |-> st.vis \cup {curr},
                     visited |-> st.visited,
                     stack |-> popped]))

flood_fill(g, fl, vis, cell) ==
    flood_loop(g, fl, [vis |-> vis, visited |-> {cell}, stack |-> <<cell>>])

\* step(action), action = <<r, c, type_>>; mine_locs is what random.sample
\* returns if this call places the mines.
step(a, mine_locs) ==
    LET cell == <<a[1], a[2]>>
        type_ == a[3]
        placing == ~mines_placed /\ type_ = 0
        g == IF placing THEN place_mines(mine_locs) ELSE grid
    IN IF cell \notin Cells
       THEN /\ UNCHANGED env_vars
            /\ obs' = get_obs(grid, visible, flags)
            /\ reward' = -1 /\ done' = FALSE /\ info' = "none"
       ELSE /\ grid' = g
            /\ mines_placed' = (mines_placed \/ placing)
            /\ IF type_ = 1
               THEN /\ flags' = IF cell \in visible THEN flags
                                ELSE IF cell \in flags THEN flags \ {cell}
                                     ELSE flags \cup {cell}
                    /\ UNCHANGED <<visible, exploded>>
                    /\ reward' = 0 /\ done' = FALSE /\ info' = "none"
               ELSE IF cell \in flags \/ cell \in visible
               THEN /\ UNCHANGED <<visible, flags, exploded>>
                    /\ reward' = -1 /\ done' = FALSE /\ info' = "none"
               ELSE IF g[cell] = MINE
               THEN /\ exploded' = TRUE
                    /\ visible' = visible \cup {cell}
                    /\ UNCHANGED flags
                    /\ reward' = -100 /\ done' = TRUE /\ info' = "lose"
               ELSE /\ visible' = flood_fill(g, flags, visible, cell)
                    /\ UNCHANGED <<flags, exploded>>
                    /\ IF Cardinality(visible') = width * height - env_mines
                       THEN reward' = 100 /\ done' = TRUE /\ info' = "win"
                       ELSE reward' = 1 /\ done' = FALSE /\ info' = "none"
            /\ obs' = get_obs(grid', visible', flags')

\* random.sample were it given all coordinates, the clicked cell included.
MineSamples_any(cell) ==
    {S \in SUBSET pool : Cardinality(S) = env_mines}

\* random.sample(coords, self.mines): any env_mines cells other than the
\* first click, among the cells of pool.
MineSamples(cell) ==
    {S \in SUBSET (pool \ {cell}) : Cardinality(S) = env_mines}

\* =========================================================== csp_agent.py
\* Sentence(cells, count)
Sentence(cells, count) == [cells |-> cells, count |-> count]

known_mines(s) ==
    IF Cardinality(s.cells) = s.count /\ s.count > 0 THEN s.cells ELSE {}

known_safes(s) == IF s.count = 0 THEN s.cells ELSE {}

\* Sentence.mark_mine without `self.count -= 1`.
Sentence_mark_mine_keep(s, cell) ==
    IF cell \in s.cells THEN Sentence(s.cells \ {cell}, s.count) ELSE s

Sentence_mark_mine(s, cell) ==
    IF cell \in s.cells THEN Sentence(s.cells \ {cell}, s.count - 1) ELSE s

Sentence_mark_safe(s, cell) ==
    IF cell \in s.cells THEN Sentence(s.cells \ {cell}, s.count) ELSE s

\* The knowledge base of an agent as one value.
KB == [moves_made |-> moves_made, mines |-> mines, safes |-> safes,
       knowledge |-> knowledge]

\* CSPAgent.__init__
EmptyKB == [moves_made |-> {}, mines |-> {}, safes |-> {}, knowledge |-> <<>>]

\* CSPAgent.mark_mine without the loop over self.knowledge.
mark_mine_unpropagated(kb, cell) ==
    IF cell \in kb.mines THEN kb ELSE [kb EXCEPT !.mines = @ \cup {cell}]

\* CSPAgent.mark_mine without the test `cell not in self.mines`, lowering the
\* count of every sentence.
mark_mine_always(kb, cell) ==
    [kb EXCEPT !.mines = @ \cup {cell},
               !.knowledge = [i \in DOMAIN @ |->
                                 Sentence(@[i].cells \ {cell}, @[i].count - 1)]]

\* CSPAgent.mark_mine
mark_mine(kb, cell) ==
    IF cell \in kb.mines THEN kb
    ELSE [kb EXCEPT !.mines = @ \cup {cell},
                    !.knowledge = [i \in DOMAIN @ |-> Sentence_mark_mine(@[i], cell)]]

\* CSPAgent.mark_safe
mark_safe(kb, cell) ==
    IF cell \in kb.safes THEN kb
    ELSE [kb EXCEPT !.safes = @ \cup {cell},
                    !.knowledge = [i \in DOMAIN @ |-> Sentence_mark_safe(@[i], cell)]]

\* for safe in safes_to_mark: self.mark_safe(safe)
RECURSIVE mark_safe_all(_, _, _)
mark_safe_all(kb, cells, i) ==
    IF i > Len(cells) THEN kb
    ELSE mark_safe_all(mark_safe(kb, cells[i]), cells, i + 1)

\* for mine in mines_to_mark: self.mark_mine(mine)
RECURSIVE mark_mine_all(_, _, _)
mark_mine_all(kb, cells, i) ==
    IF i > Len(cells) THEN kb
    ELSE mark_mine_all(mark_mine(kb, cells[i]), cells, i + 1)

\* new_s in a list of Sentences (Sentence.__eq__)
InList(s, list) == \E i \in DOMAIN list : list[i] = s

\* infer_knowledge, part A: collect the forced cells and apply them.
safes_to_mark(K) == UNION {known_safes(K[i]) : i \in DOMAIN K}
mines_to_mark(K) == UNION {known_mines(K[i]) : i \in DOMAIN K}

infer_marks(kb) ==
    mark_mine_all(mark_safe_all(kb, ListOf(safes_to_mark(kb.knowledge)), 1),
                  ListOf(mines_to_mark(kb.knowledge)), 1)

\* infer_knowledge without part B.
remove_empty_skipped(K) == K

\* infer_knowledge, part B: remove the empty sentences.
remove_empty(K) == SelectSeq(K, LAMBDA s : Cardinality(s.cells) > 0)

\* Part C with the counts subtracted the wrong way round.
RECURSIVE subset_row_swapped(_, _, _, _)
subset_row_swapped(K, s1, j, new) ==
    IF j > Len(K) THEN new
    ELSE LET s2 == K[j]
             diff_cells == s2.cells \ s1.cells
             diff_count == s1.count - s2.count
             new_s == Sentence(diff_cells, diff_count)
         IN IF /\ s1 # s2
               /\ s1.cells \subseteq s2.cells
               /\ Cardinality(diff_cells) > 0
               /\ ~InList(new_s, K)
               /\ ~InList(new_s, new)
            THEN subset_row_swapped(K, s1, j + 1, Append(new, new_s))
            ELSE subset_row_swapped(K, s1, j + 1, new)

RECURSIVE subset_inference_swapped(_, _, _)
subset_inference_swapped(K, k, new) ==
    IF k >= Len(K) \/ Len(new) < 0 THEN new
    ELSE subset_inference_swapped(K, k + 1, subset_row_swapped(K, K[k + 1], 1, new))

\* infer_knowledge, part C, the inner loop: for s2 in self.knowledge, from
\* the j-th sentence on; new is new_sentences so far.
RECURSIVE subset_row(_, _, _, _)
subset_row(K, s1, j, new) ==
    IF j > Len(K) THEN new
    ELSE LET s2 == K[j]
             diff_cells == s2.cells \ s1.cells
             diff_count == s2.count - s1.count
             new_s == Sentence(diff_cells, diff_count)
         IN IF /\ s1 # s2
               /\ s1.cells \subseteq s2.cells
               /\ Cardinality(diff_cells) > 0
               /\ ~InList(new_s, K)
               /\ ~InList(new_s, new)
            THEN subset_row(K, s1, j + 1, Append(new, new_s))
            ELSE subset_row(K, s1, j + 1, new)

\* infer_knowledge, part C, the outer loop: for s1 in self.knowledge, after
\* the first k sentences. Len(new) < 0 is never true: the test has new, the
\* outcome of the rows so far, evaluated before the next row begins.
RECURSIVE subset_inference(_, _, _)
subset_inference(K, k, new) ==
    IF k >= Len(K) \/ Len(new) < 0 THEN new
    ELSE subset_inference(K, k + 1, subset_row(K, K[k + 1], 1, new))

\* One pass of the while loop of infer_knowledge: the knowledge base after
\* the pass and the value of `changes`.
infer_pass(kb) ==
    LET marked == infer_marks(kb)
        kept == remove_empty(marked.knowledge)
        new_sentences == subset_inference(kept, 0, <<>>)
    IN [kb |-> [marked EXCEPT !.knowledge = kept \o new_sentences],
        changes |-> \/ safes_to_mark(kb.knowledge) # {}
                    \/ mines_to_mark(kb.knowledge) # {}
                    \/ new_sentences # <<>>]

\* infer_knowledge: while changes
RECURSIVE infer_knowledge(_)
infer_knowledge(kb) ==
    LET p == infer_pass(kb)
    IN IF p.changes THEN infer_knowledge(p.kb) ELSE p.kb

\* add_knowledge, step 2: the neighbours of cell that are known mines, and
\* those that are neither known mines nor known safes.
neighbors(cell) ==
    {Shift(cell, Offsets[i]) : i \in 1 .. 9} \cap (Cells \ {cell})

\* add_knowledge with the sentence given the hint as its count, the known
\* mines among the neighbours not subtracted.
add_sentence_whole_hint(kb, cell, count) ==
    LET k1 == [mark_safe(kb, cell) EXCEPT !.moves_made = @ \cup {cell}]
        cells == (neighbors(cell) \ k1.mines) \ k1.safes
    IN IF cells # {}
       THEN [k1 EXCEPT !.knowledge = Append(@, Sentence(cells, count))]
       ELSE k1

\* add_knowledge up to the call of infer_knowledge.
add_sentence(kb, cell, count) ==
    LET k1 == [mark_safe(kb, cell) EXCEPT !.moves_made = @ \cup {cell}]
        mines_found == Cardinality(neighbors(cell) \cap k1.mines)
        cells == (neighbors(cell) \ k1.mines) \ k1.safes
    IN IF cells # {}
       THEN [k1 EXCEPT !.knowledge = Append(@, Sentence(cells, count - mines_found))]
       ELSE k1

\* CSPAgent.add_knowledge
add_knowledge(kb, cell, count) == infer_knowledge(add_sentence(kb, cell, count))

\* get_action: "Sync observation with knowledge base", from the i-th cell on.
RECURSIVE sync(_, _, _)
sync(kb, o, i) ==
    IF i > Len(CellSeq) THEN kb
    ELSE LET cell == CellSeq[i]
         IN IF o[cell] >= 0 /\ cell \notin kb.moves_made
            THEN sync(add_knowledge(kb, cell, o[cell]), o, i + 1)
            ELSE sync(kb, o, i + 1)

\* possible_moves without the test `m not in self.mines`.
possible_moves_any(kb) == Cells \ kb.moves_made

\* The cells get_action may guess among: not played, not a known mine.
possible_moves(kb) == (Cells \ kb.moves_made) \ kb.mines

\* The elements of a set listed with `pick` first when it is a member: the
\* iteration order of a Python set (and the outcome of random.shuffle and
\* random.choice) is not fixed by the program, `pick` is the draw.
ListFrom(S, pick) ==
    IF pick \in S THEN <<pick>> \o ListOf(S \ {pick}) ELSE ListOf(S)

\* CSPAgent.get_action without the test `safe not in self.moves_made`.
CSP_get_action_replay(kb1, pick) ==
    LET known == ListFrom(kb1.safes, pick)
        moves == ListFrom(possible_moves(kb1), pick)
    IN IF known # <<>>
       THEN [action |-> <<known[1][1], known[1][2], 0>>, branch |-> "safe",
             est |-> <<>>]
       ELSE IF moves # <<>>
       THEN [action |-> <<moves[1][1], moves[1][2], 0>>, branch |-> "guess",
             est |-> <<>>]
       ELSE [action |-> None, branch |-> "none", est |-> <<>>]

\* CSPAgent.get_action after the sync: [action, branch].
CSP_get_action(kb1, pick) ==
    LET unplayed == ListFrom(kb1.safes \ kb1.moves_made, pick)
        moves == ListFrom(possible_moves(kb1), pick)
    IN IF unplayed # <<>>
       THEN [action |-> <<unplayed[1][1], unplayed[1][2], 0>>, branch |-> "safe",
             est |-> <<>>]
       ELSE IF moves # <<>>
       THEN [action |-> <<moves[1][1], moves[1][2], 0>>, branch |-> "guess",
             est |-> <<>>]
       ELSE [action |-> None, branch |-> "none", est |-> <<>>]

\* ======================================================== hybrid_agent.py
\* A probability mine_counts / valid_worlds is kept as <<numerator,
\* denominator>>; 1.0 is <<1, 1>>.
ONE == <<1, 1>>
Less(p, q) == p[1] * q[2] < q[1] * p[2]

\* get_smart_guess: corners, then edges, then any cell.
corners == {<<0, 0>>, <<0, width - 1>>, <<height - 1, 0>>, <<height - 1, width - 1>>}
edges == {cell \in Cells : \/ cell[1] = 0 \/ cell[1] = height - 1
                           \/ cell[2] = 0 \/ cell[2] = width - 1}

\* get_smart_guess with the edges tried before the corners.
get_smart_guess_edges_first(kb, pick) ==
    LET ok == possible_moves(kb)
        e == ListFrom(edges \cap ok, pick)
        p == ListFrom(ok, pick)
    IN IF e # <<>> THEN <<e[1][1], e[1][2], 0>>
       ELSE IF p # <<>> THEN <<p[1][1], p[1][2], 0>>
       ELSE None

\* HybridAgent.get_smart_guess
get_smart_guess(kb, pick) ==
    LET ok == possible_moves(kb)
        c == ListFrom(corners \cap ok, pick)
        e == ListFrom(edges \cap ok, pick)
        p == ListFrom(ok, pick)
    IN IF c # <<>> THEN <<c[1][1], c[1][2], 0>>
       ELSE IF e # <<>> THEN <<e[1][1], e[1][2], 0>>
       ELSE IF p # <<>> THEN <<p[1][1], p[1][2], 0>>
       ELSE None

\* MCMCAgent.get_smart_guess: the same order, written with comprehensions.
MCMC_get_smart_guess(kb, pick) ==
    LET free(S) == {cell \in S : cell \notin kb.moves_made /\ cell \notin kb.mines}
        c == ListFrom(free(corners), pick)
        valid_edges == ListFrom(free(edges), pick)
        possible == ListFrom(free(Cells), pick)
    IN IF c # <<>> THEN <<c[1][1], c[1][2], 0>>
       ELSE IF valid_edges # <<>> THEN <<valid_edges[1][1], valid_edges[1][2], 0>>
       ELSE IF possible # <<>> THEN <<possible[1][1], possible[1][2], 0>>
       ELSE None

\* fringe_cells: the cells of all sentences.
fringe_cells(K) == UNION {K[i].cells : i \in DOMAIN K}

\* get_components: neighbors[cell], built from the pairs of every sentence.
adjacency(K, fringe, cell) ==
    {c2 \in fringe : /\ c2 # cell
                     /\ cell \in fringe
                     /\ \E i \in DOMAIN K : cell \in K[i].cells /\ c2 \in K[i].cells}

\* get_components: for n in neighbors[curr], from the i-th on.
RECURSIVE push_neighbors(_, _, _)
push_neighbors(ns, i, st) ==
    IF i > Len(ns) THEN st
    ELSE IF ns[i] \in st.visited THEN push_neighbors(ns, i + 1, st)
    ELSE push_neighbors(ns, i + 1,
            [st EXCEPT !.visited = @ \cup {ns[i]}, !.stack = Append(@, ns[i])])

\* get_components: while stack; st = [stack, visited, component].
RECURSIVE traverse(_, _, _)
traverse(K, fringe, st) ==
    IF st.stack = <<>> THEN st
    ELSE LET curr == st.stack[Len(st.stack)]
             popped == SubSeq(st.stack, 1, Len(st.stack) - 1)
         IN traverse(K, fringe,
                push_neighbors(ListOf(adjacency(K, fringe, curr)), 1,
                    [stack |-> popped, visited |-> st.visited,
                     component |-> st.component \cup {curr}]))

\* get_components with the outer loop testing the cells against the visited
\* set as it was before the last traversal.
RECURSIVE components_from_stale(_, _, _, _, _)
components_from_stale(K, fringe_list, i, visited, components) ==
    IF i > Len(fringe_list) THEN components
    ELSE LET cell == fringe_list[i]
         IN IF cell \in visited
            THEN components_from_stale(K, fringe_list, i + 1, visited, components)
            ELSE LET st == traverse(K, {fringe_list[j] : j \in DOMAIN fringe_list},
                                    [stack |-> <<cell>>,
                                     visited |-> visited \cup {cell},
                                     component |-> {}])
                 IN components_from_stale(K, fringe_list, i + 1,
                                          visited \cup {cell},
                                          Append(components, st.component))

\* get_components: for cell in fringe, from the i-th on.
RECURSIVE components_from(_, _, _, _, _)
components_from(K, fringe_list, i, visited, components) ==
    IF i > Len(fringe_list) THEN components
    ELSE LET cell == fringe_list[i]
         IN IF cell \in visited
            THEN components_from(K, fringe_list, i + 1, visited, components)
            ELSE LET st == traverse(K, {fringe_list[j] : j \in DOMAIN fringe_list},
                                    [stack |-> <<cell>>,
                                     visited |-> visited \cup {cell},
                                     component |-> {}])
                 IN components_from(K, fringe_list, i + 1, st.visited,
                                    Append(components, st.component))

get_components(K, fringe_list) == components_from(K, fringe_list, 1, {}, <<>>)

\* relevant_knowledge: the sentences that touch the component.
relevant_knowledge(K, comp) == SelectSeq(K, LAMBDA s : s.cells \cap comp # {})

\* check_consistent without the test of a fully assigned sentence.
check_consistent_upper(assignment, sentences) ==
    \A i \in DOMAIN sentences :
        LET s == sentences[i]
            mine_count == Cardinality({c \in s.cells \cap DOMAIN assignment :
                                          assignment[c] = 1})
        IN ~(mine_count > s.count)

\* check_consistent(assignment, sentences)
check_consistent(assignment, sentences) ==
    \A i \in DOMAIN sentences :
        LET s == sentences[i]
            mine_count == Cardinality({c \in s.cells \cap DOMAIN assignment :
                                          assignment[c] = 1})
            unknowns == Cardinality(s.cells \ DOMAIN assignment)
        IN /\ ~(unknowns = 0 /\ mine_count # s.count)
           /\ ~(mine_count > s.count)

\* What an estimator returns, (move, prob), together with the tallies it
\* computed them from; here the return None, 1.0.
Unavailable(comp) ==
    [move |-> None, prob |-> ONE, mine_counts |-> [c \in comp |-> 0], total |-> 0]

\* The closing loop of every estimator: the first cell of comp whose
\* mine_counts / total is below every earlier one and below 1.0; from the
\* i-th cell on, best = [move, prob].
RECURSIVE best_cell(_, _, _, _, _)
best_cell(comp_list, mine_counts, total, i, best) ==
    IF i > Len(comp_list) THEN best
    ELSE LET cell == comp_list[i]
             prob == <<mine_counts[cell], total>>
         IN IF Less(prob, best.prob)
            THEN best_cell(comp_list, mine_counts, total, i + 1,
                           [move |-> cell, prob |-> prob])
            ELSE best_cell(comp_list, mine_counts, total, i + 1, best)

\* solve_component_exact(comp): (move, prob) and the tallies behind them.
solve_component_exact(K, comp_list) ==
    LET comp == {comp_list[i] : i \in DOMAIN comp_list}
        relevant == relevant_knowledge(K, comp)
        valid == {a \in [comp -> {0, 1}] : check_consistent(a, relevant)}
        valid_worlds == Cardinality(valid)
        mine_counts == [cell \in comp |-> Cardinality({a \in valid : a[cell] = 1})]
        best == best_cell(comp_list, mine_counts, valid_worlds, 1,
                          [move |-> None, prob |-> ONE])
    IN IF valid_worlds = 0 THEN Unavailable(comp)
       ELSE [move |-> best.move, prob |-> best.prob,
             mine_counts |-> mine_counts, total |-> valid_worlds]

\* The sample budget of solve_component_monte_carlo (5000 in the source),
\* cut down to what the model enumerates.
samples == 2

\* A random 0/1 assignment of comp, given by the set of cells drawn as 1.
assignment_of(comp, ones) == [c \in comp |-> IF c \in ones THEN 1 ELSE 0]

\* solve_component_monte_carlo with the mines of every sample tallied,
\* accepted or not.
solve_component_monte_carlo_all(K, comp_list, drawn) ==
    LET comp == {comp_list[i] : i \in DOMAIN comp_list}
        relevant == relevant_knowledge(K, comp)
        accepted == {i \in 1 .. samples :
                        check_consistent(assignment_of(comp, drawn[i]), relevant)}
        valid_worlds == Cardinality(accepted)
        mine_counts == [cell \in comp |->
                           Cardinality({i \in 1 .. samples : cell \in drawn[i]})]
        best == best_cell(comp_list, mine_counts, valid_worlds, 1,
                          [move |-> None, prob |-> ONE])
    IN IF valid_worlds = 0 THEN Unavailable(comp)
       ELSE [move |-> best.move, prob |-> best.prob,
             mine_counts |-> mine_counts, total |-> valid_worlds]

\* solve_component_monte_carlo(comp) with the drawn assignments `drawn`.
solve_component_monte_carlo(K, comp_list, drawn) ==
    LET comp == {comp_list[i] : i \in DOMAIN comp_list}
        relevant == relevant_knowledge(K, comp)
        accepted == {i \in 1 .. samples :
                        check_consistent(assignment_of(comp, drawn[i]), relevant)}
        valid_worlds == Cardinality(accepted)
        mine_counts == [cell \in comp |->
                           Cardinality({i \in accepted : cell \in drawn[i]})]
        best == best_cell(comp_list, mine_counts, valid_worlds, 1,
                          [move |-> None, prob |-> ONE])
    IN IF valid_worlds = 0 THEN Unavailable(comp)
       ELSE [move |-> best.move, prob |-> best.prob,
             mine_counts |-> mine_counts, total |-> valid_worlds]

\* if len(comp) <= 18
EXACT_LIMIT == 18

\* ========================================================== mcmc_agent.py
\* The step budget of solve_component_mcmc (15000 in the source), cut down
\* to what the model enumerates.
MAX_STEPS == 2

Abs(x) == IF x < 0 THEN 0 - x ELSE x

\* calc_energy(st)
RECURSIVE calc_energy(_, _, _)
calc_energy(st, relevant, i) ==
    IF i > Len(relevant) THEN 0
    ELSE LET s == relevant[i]
             s_mines == Cardinality({c \in s.cells \cap DOMAIN st : st[c] = 1})
         IN Abs(s_mines - s.count) + calc_energy(st, relevant, i + 1)

\* One step of the annealing loop on which a rejected proposal is not
\* flipped back.
anneal_step_unreverted(comp_list, relevant, proposal, m) ==
    LET cell_to_flip == comp_list[proposal.flip]
        flipped == [m.state EXCEPT ![cell_to_flip] = 1 - @]
        new_energy == calc_energy(flipped, relevant, 1)
        taken == new_energy <= m.current_energy \/ proposal.accept
        energy1 == IF taken THEN new_energy ELSE m.current_energy
        hit == energy1 = 0
    IN [state |-> flipped,
        current_energy |-> energy1,
        valid_samples |-> IF hit THEN m.valid_samples + 1 ELSE m.valid_samples,
        mine_counts |-> [c \in DOMAIN m.mine_counts |->
                           IF hit /\ flipped[c] = 1 THEN m.mine_counts[c] + 1
                           ELSE m.mine_counts[c]]]

\* solve_component_mcmc: one step of the annealing loop; proposal = [flip,
\* accept]: the cell random.choice draws and whether random.random() <
\* prob_accept; m = [state, current_energy, valid_samples, mine_counts].
anneal_step(comp_list, relevant, proposal, m) ==
    LET cell_to_flip == comp_list[proposal.flip]
        flipped == [m.state EXCEPT ![cell_to_flip] = 1 - @]
        new_energy == calc_energy(flipped, relevant, 1)
        taken == new_energy <= m.current_energy \/ proposal.accept
        state1 == IF taken THEN flipped ELSE m.state
        energy1 == IF taken THEN new_energy ELSE m.current_energy
        hit == energy1 = 0
    IN [state |-> state1,
        current_energy |-> energy1,
        valid_samples |-> IF hit THEN m.valid_samples + 1 ELSE m.valid_samples,
        mine_counts |-> [c \in DOMAIN m.mine_counts |->
                           IF hit /\ state1[c] = 1 THEN m.mine_counts[c] + 1
                           ELSE m.mine_counts[c]]]

\* solve_component_mcmc: the annealing loop from step number t on.
RECURSIVE anneal(_, _, _, _, _)
anneal(comp_list, relevant, proposals, t, m) ==
    IF t > MAX_STEPS THEN m
    ELSE anneal(comp_list, relevant, proposals, t + 1,
                anneal_step(comp_list, relevant, proposals[t], m))

\* solve_component_mcmc: the random initial state and what is computed
\* before the loop.
mcmc_start(relevant, comp, ones) ==
    LET state == assignment_of(comp, ones)
    IN [state |-> state,
        current_energy |-> calc_energy(state, relevant, 1),
        valid_samples |-> 0,
        mine_counts |-> [c \in comp |-> 0]]

\* solve_component_mcmc: what is returned after the loop.
mcmc_result(comp_list, m) ==
    LET comp == {comp_list[i] : i \in DOMAIN comp_list}
        best == best_cell(comp_list, m.mine_counts, m.valid_samples, 1,
                          [move |-> None, prob |-> ONE])
    IN IF m.valid_samples = 0 THEN Unavailable(comp)
       ELSE [move |-> best.move, prob |-> best.prob,
             mine_counts |-> m.mine_counts, total |-> m.valid_samples]

\* solve_component_mcmc(comp) with the random initial state `ones` and the
\* drawn proposals.
solve_component_mcmc(K, comp_list, ones, proposals) ==
    LET comp == {comp_list[i] : i \in DOMAIN comp_list}
        relevant == relevant_knowledge(K, comp)
    IN mcmc_result(comp_list,
                   anneal(comp_list, relevant, proposals, 1,
                          mcmc_start(relevant, comp, ones)))

\* MCMCAgent.solve_component_exact: the consistency test is written inline.
MCMC_solve_component_exact(K, comp_list) ==
    LET comp == {comp_list[i] : i \in DOMAIN comp_list}
        relevant == relevant_knowledge(K, comp)
        consistent(a) ==
            \A i \in DOMAIN relevant :
                LET s == relevant[i]
                    s_mines == Cardinality({c \in s.cells \cap DOMAIN a : a[c] = 1})
                    unknowns == Cardinality(s.cells \ DOMAIN a)
                IN ~(unknowns = 0 /\ s_mines # s.count) /\ ~(s_mines > s.count)
        valid == {a \in [comp -> {0, 1}] : consistent(a)}
        valid_worlds == Cardinality(valid)
        mine_counts == [cell \in comp |-> Cardinality({a \in valid : a[cell] = 1})]
        best == best_cell(comp_list, mine_counts, valid_worlds, 1,
                          [move |-> None, prob |-> ONE])
    IN IF valid_worlds = 0 THEN Unavailable(comp)
       ELSE [move |-> best.move, prob |-> best.prob,
             mine_counts |-> mine_counts, total |-> valid_worlds]

\* ------------------------------------------- the probability engine
\* draw is what one call of get_action draws at random: `pick` orders every
\* set it iterates, `drawn` are the Monte Carlo assignments, `ones` and
\* `proposals` the annealing run.

\* The choice of estimator with the test len(comp) < 18.
route_below(cls, n) ==
    IF n < EXACT_LIMIT THEN "exact"
    ELSE IF cls = "MCMCAgent" THEN "mcmc" ELSE "monte_carlo"

\* get_action: the estimator a component of n cells is sent to.
route(cls, n) ==
    IF n <= EXACT_LIMIT THEN "exact"
    ELSE IF cls = "MCMCAgent" THEN "mcmc" ELSE "monte_carlo"

\* The estimate of one component: the estimator get_action sends it to.
estimate(cls, K, comp_list, draw) ==
    IF route(cls, Len(comp_list)) = "exact"
    THEN IF cls = "MCMCAgent" THEN MCMC_solve_component_exact(K, comp_list)
         ELSE solve_component_exact(K, comp_list)
    ELSE IF cls = "MCMCAgent"
         THEN solve_component_mcmc(K, comp_list, draw.ones, draw.proposals)
         ELSE solve_component_monte_carlo(K, comp_list, draw.drawn)

\* get_action: what the estimators return for the components, in order,
\* and the estimator each component was sent to.
estimates(cls, K, components, draw) ==
    [i \in DOMAIN components |->
        LET comp_list == ListFrom(components[i], draw.pick)
            e == estimate(cls, K, comp_list, draw)
        IN [move |-> e.move, prob |-> e.prob, mine_counts |-> e.mine_counts,
            total |-> e.total, by |-> route(cls, Len(comp_list))]]

\* The loop of get_action without the comparison with best_overall_prob.
RECURSIVE best_overall_last(_, _, _)
best_overall_last(ests, i, best) ==
    IF i > Len(ests) THEN best
    ELSE IF ests[i].move # None
    THEN best_overall_last(ests, i + 1, [move |-> ests[i].move, prob |-> ests[i].prob])
    ELSE best_overall_last(ests, i + 1, best)

\* get_action: for comp in components, from the i-th on, given what the
\* estimators return; best = [move, prob] is best_overall_move,
\* best_overall_prob.
RECURSIVE best_overall(_, _, _)
best_overall(ests, i, best) ==
    IF i > Len(ests) THEN best
    ELSE IF ests[i].move # None /\ Less(ests[i].prob, best.prob)
    THEN best_overall(ests, i + 1, [move |-> ests[i].move, prob |-> ests[i].prob])
    ELSE best_overall(ests, i + 1, best)

\* HybridAgent.get_action / MCMCAgent.get_action after the sync.
Hybrid_get_action(cls, kb1, draw) ==
    LET unplayed == ListFrom(kb1.safes \ kb1.moves_made, draw.pick)
        fringe_list == ListFrom(fringe_cells(kb1.knowledge), draw.pick)
        components == get_components(kb1.knowledge, fringe_list)
        ests == estimates(cls, kb1.knowledge, components, draw)
        best == best_overall(ests, 1, [move |-> None, prob |-> ONE])
        guess == IF cls = "MCMCAgent" THEN MCMC_get_smart_guess(kb1, draw.pick)
                 ELSE get_smart_guess(kb1, draw.pick)
    IN IF unplayed # <<>>
       THEN [action |-> <<unplayed[1][1], unplayed[1][2], 0>>, branch |-> "safe",
             est |-> <<>>]
       ELSE IF fringe_list = <<>>
       THEN [action |-> guess, branch |-> "guess",
             est |-> <<>>]
       ELSE IF best.move # None
       THEN [action |-> <<best.move[1], best.move[2], 0>>, branch |-> "prob",
             est |-> ests]
       ELSE [action |-> guess, branch |-> "fallback",
             est |-> ests]

\* get_action of the agent's class, after the sync.
get_action(cls, kb1, draw) ==
    IF cls = "CSPAgent" THEN CSP_get_action(kb1, draw.pick)
    ELSE Hybrid_get_action(cls, kb1, draw)

\* ========================================================= smart_agent.py
HIDDEN == -2

\* The solution cap get_action passes to solve_csp (2000 in the source), cut
\* down to what the frontiers of the model exceed.
max_solutions == 3

\* SmartAgent.neighbors(r, c): the in-bounds neighbours, in the order of the
\* two loops.
Smart_neighbors(cell) ==
    SelectSeq([i \in 1 .. 9 |-> Shift(cell, Offsets[i])],
              LAMBDA n : n # cell /\ n \in Cells)

\* variables.index-like lookup: var_index[(nr, nc)], counted from 1.
var_index(variables, cell) == CHOOSE i \in DOMAIN variables : variables[i] = cell

\* build_csp: the loop over the neighbours ns of a clue, from the k-th on;
\* b = [variables, hidden_neighbors, flagged_count].
RECURSIVE scan_neighbors(_, _, _, _)
scan_neighbors(o, ns, k, b) ==
    IF k > Len(ns) THEN b
    ELSE IF o[ns[k]] = FLAGGED
    THEN scan_neighbors(o, ns, k + 1, [b EXCEPT !.flagged_count = @ + 1])
    ELSE IF o[ns[k]] = HIDDEN
    THEN LET variables == IF \E i \in DOMAIN b.variables : b.variables[i] = ns[k]
                          THEN b.variables ELSE Append(b.variables, ns[k])
         IN scan_neighbors(o, ns, k + 1,
                [b EXCEPT !.variables = variables,
                          !.hidden_neighbors = Append(@, var_index(variables, ns[k]))])
    ELSE scan_neighbors(o, ns, k + 1, b)

\* build_csp: the loop over the cells, from the i-th on; csp = [variables,
\* constraints], a constraint being [vars, required].
RECURSIVE build_csp_from(_, _, _)
build_csp_from(o, i, csp) ==
    IF i > Len(CellSeq) THEN csp
    ELSE IF o[CellSeq[i]] > 0
    THEN LET b == scan_neighbors(o, Smart_neighbors(CellSeq[i]), 1,
                     [variables |-> csp.variables, hidden_neighbors |-> <<>>,
                      flagged_count |-> 0])
             required == o[CellSeq[i]] - b.flagged_count
         IN build_csp_from(o, i + 1,
                [variables |-> b.variables,
                 constraints |-> IF b.hidden_neighbors # <<>>
                                 THEN Append(csp.constraints,
                                             [vars |-> b.hidden_neighbors,
                                              required |-> required])
                                 ELSE csp.constraints])
    ELSE build_csp_from(o, i + 1, csp)

\* SmartAgent.build_csp(obs)
build_csp(o) == build_csp_from(o, 1, [variables |-> <<>>, constraints |-> <<>>])

\* The mines a constraint sees in an assignment (-1 = not assigned), and
\* its variables not yet assigned.
assigned_mines(cv, assignment) ==
    Cardinality({k \in DOMAIN cv : assignment[cv[k]] = 1})
unassigned(cv, assignment) ==
    Cardinality({k \in DOMAIN cv : assignment[cv[k]] = -1})

\* consistent_partial with the second test rejecting an assignment whose
\* unassigned variables must all be mines.
consistent_partial_strict(constraints, assignment) ==
    \A j \in DOMAIN constraints :
        LET cmines == assigned_mines(constraints[j].vars, assignment)
            unknown == unassigned(constraints[j].vars, assignment)
        IN /\ ~(cmines > constraints[j].required)
           /\ ~(cmines + unknown <= constraints[j].required)

\* solve_csp.consistent_partial()
consistent_partial(constraints, assignment) ==
    \A j \in DOMAIN constraints :
        LET cmines == assigned_mines(constraints[j].vars, assignment)
            unknown == unassigned(constraints[j].vars, assignment)
        IN /\ ~(cmines > constraints[j].required)
           /\ ~(cmines + unknown < constraints[j].required)

\* solve_csp.backtrack(i), i counted from 1: the list of solutions after
\* the call, given the list before it.
RECURSIVE backtrack(_, _, _, _, _, _)
backtrack(n, constraints, cap, i, assignment, solutions) ==
    IF Len(solutions) >= cap THEN solutions
    ELSE IF i = n + 1
    THEN IF \A j \in DOMAIN constraints :
               assigned_mines(constraints[j].vars, assignment) = constraints[j].required
         THEN Append(solutions, assignment)
         ELSE solutions
    ELSE LET safe == [assignment EXCEPT ![i] = 0]
             mine == [assignment EXCEPT ![i] = 1]
             after_safe == IF consistent_partial(constraints, safe)
                           THEN backtrack(n, constraints, cap, i + 1, safe, solutions)
                           ELSE solutions
         IN IF consistent_partial(constraints, mine)
            THEN backtrack(n, constraints, cap, i + 1, mine, after_safe)
            ELSE after_safe

\* SmartAgent.solve_csp(variables, constraints, max_solutions)
solve_csp(variables, constraints, cap) ==
    backtrack(Len(variables), constraints, cap, 1,
              [i \in DOMAIN variables |-> -1], <<>>)

\* SmartAgent.deduce_from_solutions(variables, solutions)
deduce_from_solutions(variables, solutions) ==
    IF solutions = <<>> THEN [always_safe |-> {}, always_mine |-> {}]
    ELSE [always_safe |-> {variables[i] : i \in {i \in DOMAIN variables :
                              \A k \in DOMAIN solutions : solutions[k][i] = 0}},
          always_mine |-> {variables[i] : i \in {i \in DOMAIN variables :
                              \A k \in DOMAIN solutions : solutions[k][i] = 1}}]

\* SmartAgent.random_reveal(obs)
random_reveal(o, pick) ==
    LET moves == ListFrom({cell \in Cells : o[cell] = HIDDEN}, pick)
    IN IF moves = <<>> THEN None ELSE <<moves[1][1], moves[1][2], 0>>

\* get_action, step 4: the first variable whose mine count over the
\* solutions is the least.
least_likely(variables, solutions) ==
    LET mine_counts == [i \in DOMAIN variables |->
                           Cardinality({k \in DOMAIN solutions : solutions[k][i] = 1})]
    IN CHOOSE i \in DOMAIN variables :
          /\ \A j \in DOMAIN variables : mine_counts[i] <= mine_counts[j]
          /\ \A j \in 1 .. i - 1 : mine_counts[j] > mine_counts[i]

\* SmartAgent.get_action(obs): [action, branch].
Smart_get_action(o, pick) ==
    LET csp == build_csp(o)
        solutions == solve_csp(csp.variables, csp.constraints, max_solutions)
        deduced == deduce_from_solutions(csp.variables, solutions)
        flag == ListFrom(deduced.always_mine, pick)
        reveal == ListFrom(deduced.always_safe, pick)
        best == csp.variables[least_likely(csp.variables, solutions)]
    IN IF csp.variables = <<>>
       THEN [action |-> random_reveal(o, pick), branch |-> "random"]
       ELSE IF flag # <<>>
       THEN [action |-> <<flag[1][1], flag[1][2], 1>>, branch |-> "always_mine"]
       ELSE IF reveal # <<>>
       THEN [action |-> <<reveal[1][1], reveal[1][2], 0>>, branch |-> "always_safe"]
       ELSE IF solutions # <<>>
       THEN [action |-> <<best[1], best[2], 0>>, branch |-> "least_likely"]
       ELSE [action |-> random_reveal(o, pick), branch |-> "random"]

\* ============================================================ the game
AgentClasses == {"CSPAgent", "HybridAgent", "MCMCAgent"}

\* The cells that hold a mine.
MineCells == {cell \in Cells : grid[cell] = MINE}

\* The largest component of the knowledge base, as get_action splits it.
BigComponents(kb1) ==
    LET comps == get_components(kb1.knowledge, ListOf(fringe_cells(kb1.knowledge)))
    IN {i \in DOMAIN comps : Cardinality(comps[i]) > EXACT_LIMIT}

\* The random draws of one get_action call that the model follows: every
\* cell as `pick`; when a component goes to an approximate estimator, the
\* assignments drawn are the true layout or all-safe, and the annealing
\* flips one of the first two cells of the component.
Draws(kb1) ==
    IF BigComponents(kb1) = {}
    THEN {[pick |-> p, drawn |-> <<>>, ones |-> {}, proposals |-> <<>>] : p \in Cells}
    ELSE [pick : Cells,
          drawn : [1 .. samples -> {{}, MineCells}],
          ones : {{}, MineCells},
          proposals : [1 .. MAX_STEPS -> [flip : 1 .. 2, accept : BOOLEAN]]]

\* env = MinesweeperEnv(w, h, mines); agent = cls(env); obs = env.reset()
Start(h, w, m, classes, cells) ==
    /\ height = h /\ width = w /\ env_mines = m /\ pool = cells
    /\ grid = reset_grid /\ visible = {} /\ flags = {}
    /\ mines_placed = FALSE /\ exploded = FALSE
    /\ obs = [cell \in Cells |-> COVERED]
    /\ done = FALSE /\ info = "none" /\ action = None /\ reward = 0
    /\ phase = "act"
    /\ agent_class \in classes
    /\ moves_made = {} /\ mines = {} /\ safes = {} /\ knowledge = <<>>
    /\ branch = "none" /\ est = <<>>
    /\ todo_safes = {} /\ todo_mines = {} /\ changes = FALSE /\ last = "none"
    /\ run = None

Init == Start(BoardHeight, BoardWidth, BoardMines, AgentClasses, Cells)

\* action = agent.get_action(obs); if action is None: break
GetAction ==
    /\ phase = "act"
    /\ LET kb1 == sync(KB, obs, 1)
       IN /\ moves_made' = kb1.moves_made
          /\ mines' = kb1.mines
          /\ safes' = kb1.safes
          /\ knowledge' = kb1.knowledge
          /\ \E draw \in Draws(kb1) :
                LET got == get_action(agent_class, kb1, draw)
                IN action' = got.action /\ branch' = got.branch /\ est' = got.est
    /\ phase' = IF action' = None THEN "end" ELSE "step"
    /\ UNCHANGED <<board, env_vars, obs, done, info, reward, agent_class, infer_vars, run>>

\* obs, reward, done, info = env.step(action); while not done
Step ==
    /\ phase = "step"
    /\ \E mine_locs \in (IF mines_placed THEN {{}}
                         ELSE MineSamples(<<action[1], action[2]>>)) :
          step(action, mine_locs)
    /\ phase' = IF done' THEN "end" ELSE "act"
    /\ UNCHANGED <<board, action, agent_vars, infer_vars, run>>

Next == GetAction \/ Step

Spec == Init /\ [][Next]_vars

\* The probability agents on the wider board.
WideInit ==
    Start(WideHeight, WideWidth, WideMines, {"HybridAgent", "MCMCAgent"}, WidePool)

SpecWide == WideInit /\ [][Next]_vars

\* The probability agents on the board with the walls of mines.
GuessInit ==
    Start(GuessHeight, GuessWidth, GuessMines, {"HybridAgent", "MCMCAgent"}, GuessPool)

SpecGuess == GuessInit /\ [][Next]_vars

\* A caller that makes the observation itself: some of the cells of ObsClues
\* (none, one, or all of them) show a hint of ObsHints, every other cell is
\* covered.
Observe ==
    /\ phase = "act" /\ moves_made = {} /\ action = None
    /\ \A cell \in Cells : obs[cell] = COVERED
    /\ \E shown \in {S \in SUBSET ObsClues : Cardinality(S) = 1 \/ S = ObsClues} :
          \E hint \in [shown -> ObsHints] :
             obs' = [cell \in Cells |-> IF cell \in shown THEN hint[cell] ELSE COVERED]
    /\ UNCHANGED <<board, env_vars, done, info, action, reward, phase,
                   agent_vars, infer_vars, run>>

ObsInit == Start(ObsHeight, ObsWidth, 0, {"HybridAgent", "MCMCAgent"}, {})

NextObs == Observe \/ GetAction

\* get_action called once on an observation of the caller's making.
SpecObs == ObsInit /\ [][NextObs]_vars

\* The moves a user may enter: a type of action_space = [0, 1] (reveal or
\* flag), on any cell of the board or on a cell just outside it.
UserMoves == (Cells \cup {<<-1, 0>>, <<0, width>>}) \X {0, 1}

\* test_terminal.py: obs, reward, game_over, info = env.step((r, c, type))
Play ==
    /\ phase = "act"
    /\ \E move \in UserMoves :
          /\ action' = <<move[1][1], move[1][2], move[2]>>
          /\ \E mine_locs \in (IF mines_placed \/ move[2] # 0 \/ move[1] \notin Cells
                               THEN {{}} ELSE MineSamples(move[1])) :
                step(action', mine_locs)
    /\ phase' = IF done' THEN "end" ELSE "act"
    /\ UNCHANGED <<board, agent_vars, infer_vars, run>>

PlayInit == Start(PlayHeight, PlayWidth, PlayMines, {"user"}, Cells)

\* The environment under any sequence of moves.
SpecPlay == PlayInit /\ [][Play]_vars

\* action = agent.get_action(obs) of a SmartAgent, which keeps no state.
SmartGetAction ==
    /\ phase = "act"
    /\ \E pick \in Cells :
          LET got == Smart_get_action(obs, pick)
          IN action' = got.action /\ branch' = got.branch
    /\ phase' = IF action' = None THEN "end" ELSE "step"
    /\ UNCHANGED <<board, env_vars, obs, done, info, reward, agent_class,
                   moves_made, mines, safes, knowledge, est, infer_vars, run>>

SmartInit == Start(BoardHeight, BoardWidth, BoardMines, {"SmartAgent"}, Cells)

NextSmart == SmartGetAction \/ Step

\* The game of a SmartAgent.
SpecSmart == SmartInit /\ [][NextSmart]_vars

\* ------------------------------------------------ get_action step by step
\* The revealed cells the sync loop of get_action has yet to ingest, in the
\* order of the loop.
pending == SelectSeq(CellSeq, LAMBDA c : obs[c] >= 0 /\ c \notin moves_made)

\* The knowledge base becomes kb.
SetKB(kb) ==
    /\ moves_made' = kb.moves_made /\ mines' = kb.mines
    /\ safes' = kb.safes /\ knowledge' = kb.knowledge

\* What the steps of add_knowledge and infer_knowledge leave alone.
agent_rest == <<board, env_vars, obs, done, info, action, reward, agent_class,
                branch, est, run>>

\* get_action, the sync loop: the next self.add_knowledge((r, c), obs[r, c]),
\* up to its call of infer_knowledge.
Ingest ==
    /\ phase = "act" /\ pending # <<>>
    /\ SetKB(add_sentence(KB, pending[1], obs[pending[1]]))
    /\ phase' = "infer"
    /\ last' = IF pending[1] \in safes THEN "ingest_known" ELSE "ingest"
    /\ UNCHANGED <<agent_rest, todo_safes, todo_mines, changes>>

\* infer_knowledge: the top of the while loop and part A up to the loops
\* that apply the forced cells.
Collect ==
    /\ phase = "infer"
    /\ todo_safes' = safes_to_mark(knowledge)
    /\ todo_mines' = mines_to_mark(knowledge)
    /\ changes' = (todo_safes' # {} \/ todo_mines' # {})
    /\ phase' = "mark" /\ last' = "collect"
    /\ UNCHANGED <<agent_rest, moves_made, mines, safes, knowledge>>

\* for safe in safes_to_mark: self.mark_safe(safe)
MarkSafe ==
    /\ phase = "mark"
    /\ \E safe \in todo_safes :
          /\ SetKB(mark_safe(KB, safe))
          /\ todo_safes' = todo_safes \ {safe}
    /\ last' = "mark_safe"
    /\ UNCHANGED <<agent_rest, phase, todo_mines, changes>>

\* for mine in mines_to_mark: self.mark_mine(mine)
MarkMine ==
    /\ phase = "mark" /\ todo_safes = {}
    /\ \E mine \in todo_mines :
          /\ SetKB(mark_mine(KB, mine))
          /\ todo_mines' = todo_mines \ {mine}
    /\ last' = "mark_mine"
    /\ UNCHANGED <<agent_rest, phase, todo_safes, changes>>

\* infer_knowledge, parts B and C and the test of the while loop. Derived
\* sentences are followed up to counts of MaxCount.
Subset ==
    /\ phase = "mark" /\ todo_safes = {} /\ todo_mines = {}
    /\ LET kept == remove_empty(knowledge)
           new_sentences == subset_inference(kept, 0, <<>>)
       IN /\ \A i \in DOMAIN new_sentences :
                Abs(new_sentences[i].count) <= MaxCount
          /\ knowledge' = kept \o new_sentences
          /\ changes' = (changes \/ new_sentences # <<>>)
          /\ last' = IF new_sentences # <<>> THEN "derive" ELSE "subset"
    /\ phase' = IF changes' THEN "infer" ELSE "act"
    /\ UNCHANGED <<agent_rest, moves_made, mines, safes, todo_safes, todo_mines>>

\* get_action after the sync loop.
Choose ==
    /\ phase = "act" /\ pending = <<>>
    /\ \E draw \in Draws(KB) :
          LET got == get_action(agent_class, KB, draw)
          IN action' = got.action /\ branch' = got.branch /\ est' = got.est
    /\ phase' = IF action' = None THEN "end" ELSE "step"
    /\ last' = "choose"
    /\ UNCHANGED <<board, env_vars, obs, done, info, reward, agent_class,
                   moves_made, mines, safes, knowledge,
                   todo_safes, todo_mines, changes, run>>

Infer == Collect \/ MarkSafe \/ MarkMine \/ Subset

NextInfer == Ingest \/ Infer \/ Choose \/ Step

\* The game with add_knowledge and infer_knowledge taken step by step.
SpecInfer == Init /\ [][NextInfer]_vars

\* A caller that reports hints no board produces: add_knowledge(cell, count)
\* for any cell not yet played and any count of CallHints. A call that has
\* begun keeps running: the steps of infer_knowledge are taken while there
\* is one to take.
CallUpTo(n) ==
    /\ phase = "act" /\ Cardinality(moves_made) < n
    /\ \E cell \in Cells \ moves_made, count \in CallHints :
          SetKB(add_sentence(KB, cell, count))
    /\ phase' = "infer" /\ last' = "ingest"
    /\ UNCHANGED <<agent_rest, todo_safes, todo_mines, changes>>

Call == CallUpTo(MaxCalls)

CallInit == Start(CallHeight, CallWidth, 0, {"CSPAgent"}, {})

NextCalls == Call \/ Infer

SpecCalls == CallInit /\ [][NextCalls]_vars /\ WF_vars(NextCalls)

\* ------------------------------------------------ the methods called directly
\* A caller that reports up to MaxReports hints with add_knowledge and then
\* calls get_action, or one of the approximate estimators on a component of
\* the frontier.
Report == CallUpTo(MaxReports)

\* The components of the frontier, as get_action splits it.
Components ==
    LET comps == get_components(knowledge, ListOf(fringe_cells(knowledge)))
    IN {comps[i] : i \in DOMAIN comps}

\* What a direct call of an estimator leaves alone.
estimator_rest == <<board, env_vars, obs, done, info, action, reward, agent_class,
                    moves_made, mines, safes, knowledge, infer_vars>>

\* HybridAgent.solve_component_monte_carlo(comp), with any assignments drawn.
MonteCarlo ==
    /\ phase = "act" /\ agent_class = "HybridAgent"
    /\ \E comp \in Components : \E pick \in comp :
          \E drawn \in [1 .. samples -> SUBSET comp] :
             LET comp_list == ListFrom(comp, pick)
             IN /\ est' = <<solve_component_monte_carlo(knowledge, comp_list, drawn)>>
                /\ run' = [method |-> "monte_carlo", comp_list |-> comp_list,
                           drawn |-> drawn, t |-> samples, m |-> <<>>]
    /\ branch' = "monte_carlo" /\ phase' = "end"
    /\ UNCHANGED estimator_rest

\* MCMCAgent.solve_component_mcmc(comp) up to the annealing loop, with any
\* initial state.
McmcStart ==
    /\ phase = "act" /\ agent_class = "MCMCAgent"
    /\ \E comp \in Components : \E pick \in comp : \E ones \in SUBSET comp :
          run' = [method |-> "mcmc", comp_list |-> ListFrom(comp, pick),
                  drawn |-> <<>>, t |-> 0,
                  m |-> mcmc_start(relevant_knowledge(knowledge, comp), comp, ones)]
    /\ phase' = "anneal"
    /\ UNCHANGED <<estimator_rest, branch, est>>

\* for step in range(MAX_STEPS): one step, with any proposal and outcome.
McmcStep ==
    /\ phase = "anneal" /\ run.t < MAX_STEPS
    /\ \E flip \in DOMAIN run.comp_list, accept \in BOOLEAN :
          LET comp == {run.comp_list[i] : i \in DOMAIN run.comp_list}
          IN run' = [run EXCEPT
                        !.t = @ + 1,
                        !.m = anneal_step(run.comp_list,
                                          relevant_knowledge(knowledge, comp),
                                          [flip |-> flip, accept |-> accept], @)]
    /\ UNCHANGED <<estimator_rest, branch, est, phase>>

\* solve_component_mcmc after the loop.
McmcReturn ==
    /\ phase = "anneal" /\ run.t = MAX_STEPS
    /\ est' = <<mcmc_result(run.comp_list, run.m)>>
    /\ branch' = "mcmc" /\ phase' = "end"
    /\ UNCHANGED <<estimator_rest, run>>

DirectInit == Start(CallHeight, CallWidth, 0, {"HybridAgent", "MCMCAgent"}, {})

NextDirect ==
    Report \/ Infer \/ Choose \/ MonteCarlo \/ McmcStart \/ McmcStep \/ McmcReturn

SpecDirect == DirectInit /\ [][NextDirect]_vars

\* ====================================================== properties
\* The cell an action is about.
cell_of(a) == <<a[1], a[2]>>

\* The 0/1 assignments of comp that satisfy with equality every sentence
\* of K that touches comp.
ValidAssignments(K, comp) ==
    {a \in [comp -> {0, 1}] :
        \A k \in DOMAIN K :
            K[k].cells \cap comp # {} =>
                Cardinality({c \in K[k].cells \cap comp : a[c] = 1}) = K[k].count}

\* C1: in every state of an agent playing against MinesweeperEnv, between
\* and within its get_action / add_knowledge calls, the known-safe set and
\* the known-mine set are disjoint, and the cells of every sentence of the
\* knowledge list are disjoint from both.
C1_Disjoint ==
    /\ safes \cap mines = {}
    /\ \A i \in DOMAIN knowledge : knowledge[i].cells \cap (safes \cup mines) = {}

\* add_knowledge has returned with known safes to play, known mines and
\* open sentences.
C1_Witness ==
    /\ phase = "act" /\ last = "subset"
    /\ safes \ moves_made # {} /\ mines # {} /\ knowledge # <<>>

\* C2: every sentence of the knowledge list has 0 <= count <= |cells| after
\* every mark_safe, mark_mine and subset-resolution step of add_knowledge /
\* infer_knowledge, for the observations MinesweeperEnv produces.
C2_CountInRange ==
    \A i \in DOMAIN knowledge :
        /\ 0 <= knowledge[i].count
        /\ knowledge[i].count <= Cardinality(knowledge[i].cells)

\* A mine has just been marked and a sentence still has mines to place
\* among more cells than mines.
C2_Witness ==
    /\ last = "mark_mine"
    /\ \E i \in DOMAIN knowledge :
          /\ 0 < knowledge[i].count
          /\ knowledge[i].count < Cardinality(knowledge[i].cells)

C5_SubsetSound ==
    [][(phase = "mark" /\ phase' # "mark") =>
          LET kept == remove_empty(knowledge)
              fringe == fringe_cells(kept)
          IN /\ SubSeq(knowledge', 1, Len(kept)) = kept
             /\ \A j \in Len(kept) + 1 .. Len(knowledge') :
                   \E a, b \in DOMAIN kept :
                       /\ kept[a].cells \subseteq kept[b].cells
                       /\ knowledge'[j] = Sentence(kept[b].cells \ kept[a].cells,
                                                   kept[b].count - kept[a].count)
             /\ ValidAssignments(knowledge', fringe) = ValidAssignments(kept, fringe)
      ]_vars

\* A pass has derived sentences for a frontier with several valid
\* assignments.
C5_Witness ==
    /\ last = "derive"
    /\ Cardinality(ValidAssignments(knowledge, fringe_cells(knowledge))) >= 2

\* C6: CSPAgent.mark_safe(cell) and CSPAgent.mark_mine(cell) are idempotent:
\* a second call with the same cell leaves known safes, known mines,
\* moves_made and every sentence as they were after the first call.
C6_MarkIdempotent ==
    \A cell \in Cells :
        /\ mark_safe(mark_safe(KB, cell), cell) = mark_safe(KB, cell)
        /\ mark_mine(mark_mine(KB, cell), cell) = mark_mine(KB, cell)

\* add_knowledge has called mark_safe on a cell that was already known safe,
\* with mines known and sentences open.
C6_Witness == last = "ingest_known" /\ knowledge # <<>> /\ mines # {}

C7_ComponentsPartition ==
    \A pick \in Cells :
        LET fringe == fringe_cells(knowledge)
            comps == get_components(knowledge, ListFrom(fringe, pick))
        IN /\ \A cell \in fringe :
                 Cardinality({i \in DOMAIN comps : cell \in comps[i]}) = 1
           /\ \A i \in DOMAIN comps : comps[i] # {} /\ comps[i] \subseteq fringe
           /\ \A k \in DOMAIN knowledge :
                 \E i \in DOMAIN comps : knowledge[k].cells \subseteq comps[i]

\* The frontier splits into two components, one of them with several cells.
C7_Witness ==
    LET comps == get_components(knowledge, ListOf(fringe_cells(knowledge)))
    IN /\ phase = "step"
       /\ Len(comps) >= 2
       /\ \E i \in DOMAIN comps : Cardinality(comps[i]) >= 2

\* What C8 asks of the result r of an exact solver on comp.
ExactResult(K, comp, r) ==
    LET valid == ValidAssignments(K, comp)
        ratio(c) == <<Cardinality({a \in valid : a[c] = 1}), Cardinality(valid)>>
    IN /\ r.total = Cardinality(valid)
       /\ \A c \in comp : r.mine_counts[c] = ratio(c)[1]
       /\ r.move # None =>
             /\ r.move \in comp
             /\ r.prob = ratio(r.move)
             /\ \A c \in comp : ~Less(ratio(c), r.prob)
       /\ r.move = None => \A c \in comp : ratio(c)[1] = ratio(c)[2]

\* C8: solve_component_exact (of HybridAgent and of MCMCAgent) counts exactly
\* the 0/1 assignments of the component that satisfy every relevant sentence
\* with equality; the probability it reports for the returned cell is the
\* number of valid assignments in which the cell is a mine over the number
\* of valid assignments, and no cell of the component has a smaller ratio.
\* For the single sentence {(0,0),(0,1)} = 1 there are 2 valid assignments
\* and the reported probability is 1/2.
C8_ExactCounts ==
    /\ \A pick \in Cells :
          LET comps == get_components(knowledge,
                                      ListFrom(fringe_cells(knowledge), pick))
          IN \A i \in DOMAIN comps :
                LET comp_list == ListFrom(comps[i], pick)
                IN /\ ExactResult(knowledge, comps[i],
                                   solve_component_exact(knowledge, comp_list))
                   /\ ExactResult(knowledge, comps[i],
                                   MCMC_solve_component_exact(knowledge, comp_list))
    /\ \A first \in {<<0, 0>>, <<0, 1>>} :
          LET A == <<Sentence({<<0, 0>>, <<0, 1>>}, 1)>>
              comp_list == ListFrom({<<0, 0>>, <<0, 1>>}, first)
              hybrid == solve_component_exact(A, comp_list)
              mcmc == MCMC_solve_component_exact(A, comp_list)
          IN /\ hybrid.total = 2 /\ hybrid.prob = <<1, 2>> /\ hybrid.move = first
             /\ mcmc.total = 2 /\ mcmc.prob = <<1, 2>> /\ mcmc.move = first

\* The engine solved a component with several valid assignments in which
\* the cells are mines with different frequencies.
C8_Witness ==
    /\ phase = "step" /\ branch = "prob"
    /\ \E i \in DOMAIN est :
          /\ est[i].total >= 3
          /\ \E c, d \in DOMAIN est[i].mine_counts :
                0 < est[i].mine_counts[c] /\ est[i].mine_counts[c] < est[i].mine_counts[d]

\* An estimator result that is a move, not the report "unavailable".
Usable(e) == e.move # None

\* The estimated mine probability of cell c in the estimate e.
Estimated(e, c) == <<e.mine_counts[c], e.total>>

\* What C9 asks of the cell picked from the estimates of the components.
PicksGlobalMinimum(ests, picked) ==
    (\E i \in DOMAIN ests : Usable(ests[i])) =>
        \E i \in DOMAIN ests :
            /\ Usable(ests[i])
            /\ picked \in DOMAIN ests[i].mine_counts
            /\ \A j \in DOMAIN ests :
                  Usable(ests[j]) =>
                      \A c \in DOMAIN ests[j].mine_counts :
                          ~Less(Estimated(ests[j], c), Estimated(ests[i], picked))

\* Estimates of three one-cell components, each one a report "unavailable"
\* or a tally mine_counts / total.
SampleEstimates ==
    LET result(c, tally) ==
            IF tally[2] = 0 THEN Unavailable({c})
            ELSE LET mine_counts == [d \in {c} |-> tally[1]]
                     best == best_cell(<<c>>, mine_counts, tally[2], 1,
                                       [move |-> None, prob |-> ONE])
                 IN [move |-> best.move, prob |-> best.prob,
                     mine_counts |-> mine_counts, total |-> tally[2]]
        tallies == {<<0, 0>>, <<0, 1>>, <<1, 2>>, <<1, 3>>}
    IN {<<result(<<0, 0>>, t[1]), result(<<0, 1>>, t[2]), result(<<0, 2>>, t[3])>> :
            t \in tallies \X tallies \X tallies}

\* C9: when no known-safe unplayed cell exists and some component yields a
\* usable estimate, the cell HybridAgent / MCMCAgent get_action reveals has
\* an estimated mine probability that is at most that of every cell of every
\* component with a usable estimate; a component whose estimator reported
\* "unavailable" is skipped and does not prevent a pick from the others.
C9_GlobalMinimum ==
    /\ (/\ agent_class # "CSPAgent"
        /\ safes \ moves_made = {}
        /\ fringe_cells(knowledge) # {}) => est # <<>>
    /\ (\E i \in DOMAIN est : Usable(est[i])) =>
          /\ branch = "prob" /\ action # None /\ action[3] = 0
          /\ PicksGlobalMinimum(est, cell_of(action))
    /\ \A ests \in SampleEstimates :
          PicksGlobalMinimum(ests,
              best_overall(ests, 1, [move |-> None, prob |-> ONE]).move)

\* The engine had two components to choose from and picked from the second,
\* whose best cell is the less likely mine.
C9_Witness ==
    /\ phase = "step" /\ branch = "prob" /\ Len(est) >= 2
    /\ Less(est[2].prob, est[1].prob)
    /\ cell_of(action) = est[2].move

\* C10: after the observation is ingested, if some cell is known safe and
\* not in moves_made, get_action (CSPAgent, HybridAgent, MCMCAgent) returns a
\* reveal (type 0) of such a cell from the known-safe branch, and neither the
\* probability engine nor a guess is reached.
C10_SafeMoveFirst ==
    (safes \ moves_made # {}) =>
        /\ branch = "safe" /\ est = <<>>
        /\ action # None /\ action[3] = 0
        /\ cell_of(action) \in safes \ moves_made

\* A HybridAgent plays a known-safe cell while sentences are open.
C10_Witness ==
    /\ phase = "step" /\ branch = "safe" /\ agent_class = "HybridAgent"
    /\ fringe_cells(knowledge) # {}

\* What C11 asks of the guess g for the knowledge base kb.
PreferenceOrder(kb, g) ==
    LET ok == {cell \in Cells : cell \notin kb.moves_made /\ cell \notin kb.mines}
    IN /\ (g = None) <=> (ok = {})
       /\ g # None => g[3] = 0
       /\ corners \cap ok # {} => cell_of(g) \in corners \cap ok
       /\ (corners \cap ok = {} /\ edges \cap ok # {}) => cell_of(g) \in edges \cap ok
       /\ (edges \cap ok = {} /\ ok # {}) => cell_of(g) \in ok

\* Knowledge bases without sentences: the played cells and the known mines
\* are each nothing, the corners, the edges or the inner cells.
SampleGuessKBs ==
    LET parts == {{}, corners, edges \ corners, Cells \ edges}
    IN {[EmptyKB EXCEPT !.moves_made = a \cup b, !.mines = c] :
            a \in parts, b \in parts, c \in parts}

\* C11: get_smart_guess (of HybridAgent and of MCMCAgent) returns a corner
\* whenever some corner is neither played nor a known mine, otherwise such
\* an edge cell if there is one, otherwise any such cell, and None exactly
\* when every cell is played or a known mine; whatever the random order.
C11_GuessOrder ==
    \A pick \in Cells :
        \A kb \in {KB} \cup SampleGuessKBs :
            /\ PreferenceOrder(kb, get_smart_guess(kb, pick))
            /\ PreferenceOrder(kb, MCMC_get_smart_guess(kb, pick))

\* A guess was returned on an edge cell that is no corner, no corner being
\* left to guess.
C11_Witness ==
    /\ phase = "step" /\ branch = "guess"
    /\ cell_of(action) \in edges \ corners
    /\ corners \subseteq moves_made \cup mines

\* C12: a sentence whose count is negative or larger than the number of its
\* cells is rejected with a fatal error: whatever hints add_knowledge is
\* called with, no such sentence is stored in, or kept in, the knowledge list.
C12_InconsistentRejected ==
    ~ \E i \in DOMAIN knowledge :
          \/ knowledge[i].count < 0
          \/ knowledge[i].count > Cardinality(knowledge[i].cells)

\* C13: when the exact enumeration of a component finds no valid assignment,
\* get_action gives up (a hard failure): it returns no move chosen with the
\* same knowledge base, neither from another component nor from the
\* positional fallback.
C13_ContradictionIsFatal ==
    (/\ branch \in {"prob", "fallback"}
     /\ \E i \in DOMAIN est : est[i].total = 0) => action = None

\* The cells of the component a directly called estimator ran on.
run_comp == {run.comp_list[i] : i \in DOMAIN run.comp_list}

\* C14: solve_component_monte_carlo tallies a sampled assignment only if it
\* satisfies every relevant sentence exactly; it returns a cell only when
\* some sample was accepted, with probability (accepted samples in which
\* the cell is a mine) / (accepted samples), and with no accepted sample it
\* returns no cell, whatever was drawn.
C14_MonteCarloTally ==
    (phase = "end" /\ branch = "monte_carlo") =>
        LET valid == ValidAssignments(knowledge, run_comp)
            accepted == {i \in 1 .. samples :
                            assignment_of(run_comp, run.drawn[i]) \in valid}
            r == est[1]
        IN /\ r.total = Cardinality(accepted)
           /\ \A c \in run_comp :
                 r.mine_counts[c] = Cardinality({i \in accepted : c \in run.drawn[i]})
           /\ r.move # None =>
                 /\ r.total >= 1 /\ r.move \in run_comp
                 /\ r.prob = <<r.mine_counts[r.move], r.total>>
           /\ Cardinality(accepted) = 0 => r.move = None

\* One sample was accepted and another rejected, and a cell is returned.
C14_Witness ==
    /\ phase = "end" /\ branch = "monte_carlo"
    /\ est[1].total = 1 /\ est[1].move # None
    /\ \E c \in run_comp : est[1].mine_counts[c] = 1
    /\ \E i \in 1 .. samples :
          assignment_of(run_comp, run.drawn[i]) \notin ValidAssignments(knowledge, run_comp)

\* The energy of the assignment st of comp: the sum over the sentences of K
\* that touch comp, from the i-th on, of |assigned mines - count|.
RECURSIVE Energy(_, _, _, _)
Energy(K, comp, st, i) ==
    IF i > Len(K) THEN 0
    ELSE (IF K[i].cells \cap comp = {} THEN 0
          ELSE Abs(Cardinality({c \in K[i].cells \cap comp : st[c] = 1}) - K[i].count))
         + Energy(K, comp, st, i + 1)

\* C15: in solve_component_mcmc, whatever is proposed and accepted, after
\* every step current_energy is the energy of the current state; a state is
\* tallied exactly when that energy is 0, so every tallied state satisfies
\* every relevant sentence exactly; and when no step ended in a state of
\* energy 0 the method returns no cell.
C15_EnergyTracked ==
    [][/\ phase' = "anneal" =>
             run'.m.current_energy = Energy(knowledge', run_comp', run'.m.state, 1)
       /\ (phase = "anneal" /\ phase' = "anneal") =>
             LET hit == run'.m.state \in ValidAssignments(knowledge, run_comp)
             IN /\ hit <=> run'.m.current_energy = 0
                /\ run'.m.valid_samples = run.m.valid_samples + (IF hit THEN 1 ELSE 0)
                /\ \A c \in run_comp :
                      run'.m.mine_counts[c] = run.m.mine_counts[c]
                          + (IF hit /\ run'.m.state[c] = 1 THEN 1 ELSE 0)
       /\ (phase = "anneal" /\ phase' = "end") =>
             /\ run.m.valid_samples = 0 => est'[1].move = None
             /\ est'[1].move # None =>
                   est'[1].prob = <<run.m.mine_counts[est'[1].move], run.m.valid_samples>>
      ]_vars

\* One step of the run ended in a state of energy 0 that holds a mine and
\* was tallied, another did not, and a cell is returned.
C15_Witness ==
    /\ phase = "end" /\ branch = "mcmc"
    /\ est[1].move # None /\ est[1].total = 1
    /\ run.m.current_energy = 0
    /\ \E c \in run_comp : run.m.state[c] = 1

\* The 0/1 assignments of the variables of a CSP that satisfy every
\* constraint with equality, found by going through all 2^n of them.
SatisfyingAssignments(csp) ==
    {a \in [DOMAIN csp.variables -> {0, 1}] :
        \A j \in DOMAIN csp.constraints :
            Cardinality({k \in DOMAIN csp.constraints[j].vars :
                            a[csp.constraints[j].vars[k]] = 1})
                = csp.constraints[j].required}

\* C16: for the variables and constraints of any observation of a game, and
\* a cap above the number of satisfying assignments (the cap get_action
\* uses, or one above 2^n), solve_csp returns exactly the assignments that
\* satisfy every constraint with equality, each once: the set the
\* enumeration of all 2^n assignments yields.
C16_BacktrackingExact ==
    LET csp == build_csp(obs)
        valid == SatisfyingAssignments(csp)
    IN \A cap \in {max_solutions, 2 ^ Len(csp.variables) + 1} :
          Cardinality(valid) < cap =>
              LET solutions == solve_csp(csp.variables, csp.constraints, cap)
                  same(x, a) == \A i \in DOMAIN csp.variables : x[i] = a[i]
              IN /\ \A k \in DOMAIN solutions :
                        \E a \in valid : same(solutions[k], a)
                 /\ \A a \in valid :
                        \E k \in DOMAIN solutions : same(solutions[k], a)
                 /\ \A k, l \in DOMAIN solutions :
                        same(solutions[k], solutions[l]) => k = l

\* A SmartAgent chose a move from a frontier of several variables and
\* constraints that has more than one satisfying assignment and fewer than
\* the cap.
C16_Witness ==
    LET csp == build_csp(obs)
    IN /\ phase = "step" /\ agent_class = "SmartAgent" /\ branch # "random"
       /\ Len(csp.variables) >= 4 /\ Len(csp.constraints) >= 2
       /\ Cardinality(SatisfyingAssignments(csp)) > 1
       /\ Cardinality(SatisfyingAssignments(csp)) < max_solutions

\* C17: a cell SmartAgent.get_action flags as always-mine or reveals as
\* always-safe has that value in every assignment that satisfies the
\* constraints: nothing is forced from a solution list that solve_csp cut
\* off at the cap.
C17_ForcedFromExhaustiveSearch ==
    (phase = "step" /\ branch \in {"always_mine", "always_safe"}) =>
        LET csp == build_csp(obs)
            i == var_index(csp.variables, cell_of(action))
        IN \A a \in SatisfyingAssignments(csp) :
              a[i] = (IF branch = "always_mine" THEN 1 ELSE 0)

\* C18: get_action of HybridAgent and MCMCAgent sends a component to the
\* exact estimator if and only if it has at most 18 cells; a component of 19
\* or more cells goes to the approximate estimator of the class (Monte
\* Carlo, respectively annealing) and is never enumerated exactly.
C18_ExactUpTo18 ==
    /\ branch \in {"prob", "fallback"} =>
          \A i \in DOMAIN est :
              LET n == Cardinality(DOMAIN est[i].mine_counts)
              IN /\ (est[i].by = "exact") <=> (n <= 18)
                 /\ n >= 19 =>
                       est[i].by = (IF agent_class = "MCMCAgent" THEN "mcmc"
                                    ELSE "monte_carlo")
    /\ \A n \in 0 .. MaxComponent :
          /\ (route("HybridAgent", n) = "exact") <=> (n <= 18)
          /\ (route("MCMCAgent", n) = "exact") <=> (n <= 18)
          /\ n >= 19 => /\ route("HybridAgent", n) = "monte_carlo"
                        /\ route("MCMCAgent", n) = "mcmc"

\* get_action met a component of 19 cells and sent it to the annealing
\* estimator.
C18_Witness ==
    /\ phase = "step" /\ agent_class = "MCMCAgent"
    /\ \E i \in DOMAIN est :
          /\ Cardinality(DOMAIN est[i].mine_counts) = 19
          /\ est[i].by = "mcmc"

\* C19: in every observation returned by reset or by a step that does not
\* end the game in a loss, each cell is a hint 0..8, covered or flagged: no
\* mine is made visible by a safe reveal or its flood fill, whatever the
\* layout and the moves.
C19_NoMineShown ==
    info # "lose" => \A cell \in Cells : obs[cell] \in (0 .. 8) \cup {COVERED, FLAGGED}

\* C20: the first click is safe: while no in-bounds reveal has been made no
\* mine is placed and nothing is visible; the first in-bounds reveal after
\* reset places the mines, never on the cell it targets, and does not end
\* the game with 'lose'; exactly `mines` cells hold a mine from then on.
C20_FirstClickSafe ==
    [][/\ (~mines_placed /\ action' # None /\ cell_of(action') \in Cells
                         /\ action'[3] = 0) => mines_placed'
       /\ (~mines_placed /\ mines_placed') =>
             /\ cell_of(action') \in Cells /\ action'[3] = 0
             /\ grid'[cell_of(action')] # MINE
             /\ info' # "lose" /\ ~exploded'
             /\ Cardinality(MineCells') = env_mines
       /\ (~mines_placed /\ ~mines_placed') =>
             /\ MineCells' = {} /\ visible' = {} /\ info' # "lose"
       /\ mines_placed => mines_placed' /\ grid' = grid
      ]_vars

\* The first reveal was made on a flagged cell: the mines are placed around
\* it and nothing is revealed.
C20_Witness ==
    /\ mines_placed /\ visible = {} /\ reward = -1
    /\ cell_of(action) \in flags
    /\ Cardinality(MineCells) = env_mines

\* C21: step returns done with result 'win' exactly when the reveal it
\* performed leaves every non-mine cell visible: a step that is not a safe
\* reveal never reports a win, and a safe reveal reports the win if and only
\* if all cells without a mine are visible after it.
C21_WinExactlyWhenCleared ==
    [][LET cell == cell_of(action')
           revealing == /\ cell \in Cells /\ action'[3] = 0
                        /\ cell \notin flags /\ cell \notin visible
                        /\ grid'[cell] # MINE
       IN (done' /\ info' = "win")
             <=> (revealing /\ (Cells \ MineCells') \subseteq visible')
      ]_vars

\* C22: when infer_knowledge returns the knowledge list is at a fixpoint: no
\* sentence has an empty cell set, none has count 0 or count equal to its
\* number of cells, and for every pair of sentences A, B with A.cells a
\* proper subset of B.cells the sentence (B.cells - A.cells, B.count -
\* A.count) is in the list.
C22_Fixpoint ==
    (phase = "act" /\ last = "subset") =>
        /\ \A i \in DOMAIN knowledge : knowledge[i].cells # {}
        /\ \A i \in DOMAIN knowledge :
              /\ knowledge[i].count # 0
              /\ knowledge[i].count # Cardinality(knowledge[i].cells)
        /\ \A a, b \in DOMAIN knowledge :
              (knowledge[a].cells \subseteq knowledge[b].cells
                  /\ knowledge[a].cells # knowledge[b].cells)
              => InList(Sentence(knowledge[b].cells \ knowledge[a].cells,
                                 knowledge[b].count - knowledge[a].count),
                        knowledge)

\* infer_knowledge has returned after two hints with no mine known: a cell
\* that was never played is known safe, which only a sentence with count 0
\* derived from a sentence and a subset of it can have brought about, and
\* sentences remain.
C22_Witness ==
    /\ phase = "act" /\ last = "subset"
    /\ Cardinality(moves_made) = 2 /\ mines = {}
    /\ safes \ moves_made # {}
    /\ knowledge # <<>>

\* C23: the knowledge base is sound with respect to the true board: in any
\* game an agent plays against MinesweeperEnv, after every get_action no
\* known-safe cell holds a mine, every known-mine cell holds a mine, and for
\* every sentence the number of mines among its cells equals its count.
C23_KnowledgeSound ==
    /\ safes \cap MineCells = {}
    /\ mines_placed => mines \subseteq MineCells
    /\ ~mines_placed => mines = {} /\ knowledge = <<>>
    /\ \A i \in DOMAIN knowledge :
          Cardinality(knowledge[i].cells \cap MineCells) = knowledge[i].count

\* get_action has returned with mines known, a deduced safe cell not yet
\* played, and sentences open.
C23_Witness ==
    /\ phase = "step" /\ mines # {} /\ knowledge # <<>>
    /\ safes \ moves_made # {}

\* C24: every action get_action returns in a game against MinesweeperEnv
\* targets a cell of the board that is neither visible nor flagged, so every
\* env.step makes at least one more cell visible (the mine itself when the
\* game is lost) and either ends the game or hands the turn back to
\* get_action: the visible cells grow with every step of the driving loop,
\* which therefore takes at most width*height steps.
C24_LoopTerminates ==
    /\ [](phase = "step" =>
             /\ action # None /\ action[3] = 0
             /\ cell_of(action) \in Cells
             /\ cell_of(action) \notin visible \cup flags)
    /\ [][phase = "step" =>
             /\ visible \subseteq visible' /\ visible' # visible
             /\ visible' \subseteq Cells
             /\ phase' = IF done' THEN "end" ELSE "act"]_vars
    /\ [][phase = "act" => (visible' = visible /\ phase' \in {"step", "end"})]_vars

\* The loop has ended by `break`: get_action returned None in a game that
\* was never reported done, after steps that made cells visible.
C24_Witness ==
    /\ phase = "end" /\ action = None /\ ~done
    /\ visible # {}

\* C25: in any game a SmartAgent plays against MinesweeperEnv, every
\* constraint build_csp derives from the current observation is satisfied by
\* the true mine layout: the number of mines among the hidden cells of the
\* constraint equals its required count, the clue minus the flagged
\* neighbours.
C25_ConstraintsTrue ==
    mines_placed =>
        LET csp == build_csp(obs)
        IN \A k \in DOMAIN csp.constraints :
              Cardinality({i \in DOMAIN csp.constraints[k].vars :
                              csp.variables[csp.constraints[k].vars[i]] \in MineCells})
                 = csp.constraints[k].required

\* C26: a rejected action of step (a cell out of bounds, or a reveal on a
\* flagged or already visible cell) returns reward -1 with done false and
\* leaves the whole board state unchanged: grid, visible, flags,
\* mines_placed and exploded are as before the call, also when it is the
\* first reveal of the game.
C26_RejectedChangesNothing ==
    [][LET cell == cell_of(action')
           rejected == \/ cell \notin Cells
                       \/ action'[3] = 0 /\ cell \in flags \cup visible
       IN rejected =>
             /\ reward' = -1 /\ ~done'
             /\ grid' = grid /\ visible' = visible /\ flags' = flags
             /\ mines_placed' = mines_placed /\ exploded' = exploded
      ]_vars

====
